---- MODULE Spec2Model ----
(***************************************************************************)
(* Model of GUI_test/simple_gui.py: a Tk window with two Entry widgets,    *)
(* two Labels and one Button whose command, create_project, reads both     *)
(* entries and forwards them to utils.create_new_project.                  *)
(*                                                                         *)
(* The module body (lines 12-37) runs once, statement group by statement   *)
(* group, then root.mainloop() serves UI events on the single thread.      *)
(* utils.create_new_project is external: each invocation either returns,   *)
(* raises an exception (Tk reports it from the callback wrapper and the    *)
(* main loop goes on), or never returns.                                   *)
(***************************************************************************)
EXTENDS Naturals, Sequences, FiniteSets

\* Bound on the number of button activations explored.
MaxClicks == 2

\* Texts a user can leave in an Entry: empty, the spec's two scenario
\* strings, and one with characters that are invalid in a path component.
Strings == {"", "MyProject", "/tmp/projects", "a?*"}

\* A Python name that is not bound (no such local / global yet).
Unbound == "<unbound>"

\* How one invocation of utils.create_new_project can end.
Outcomes == {"return", "raise", "block"}

VARIABLES
    pc,               \* next statement of the script / "mainloop" / "call"
    window,           \* "none" | "open" | "closed": the Tk root
    widgets,          \* packed widgets, as [name, kind] records
    name_text,        \* content of project_name_entry
    dir_text,         \* content of project_dir_entry
    project_name,     \* module-level global, line 29
    project_dir,      \* module-level global, line 30
    h_project_name,   \* local project_name of create_project, line 7
    h_project_dir,    \* local project_dir of create_project, line 8
    clicks,           \* field contents seen at each button activation
    calls,            \* argument tuples of utils.create_new_project calls
    inflight,         \* create_new_project invocations not yet finished
    outcome           \* how the latest invocation ends / ended

vars == <<pc, window, widgets, name_text, dir_text, project_name,
          project_dir, h_project_name, h_project_dir, clicks, calls,
          inflight, outcome>>

LoadPcs == {"l12", "l29", "l33", "l37"}
HandlerPcs == {"h7", "h8", "h9"}

Widget(n, k) == [name |-> n, kind |-> k]

\* Widgets the user can operate (text entries and buttons; labels are not).
Interactive == {w \in widgets : w.kind \in {"Entry", "Button"}}


\* Variant: events are also dispatched while create_new_project is running
\* (as if the call re-entered the event loop).
ResponsiveDuringCall == pc \in {"mainloop", "call"}

\* The Tk main loop dispatches an event only while it is waiting for one.
Responsive == pc = "mainloop"

Init ==
    /\ pc = "l12"
    /\ window = "none"
    /\ widgets = {}
    /\ name_text = ""
    /\ dir_text = ""
    /\ project_name = Unbound
    /\ project_dir = Unbound
    /\ h_project_name = Unbound
    /\ h_project_dir = Unbound
    /\ clicks = <<>>
    /\ calls = <<>>
    /\ inflight = 0
    /\ outcome = "none"

\* Lines 12-27: root window, the two entries and their labels.
BuildWindow ==
    /\ pc = "l12"
    /\ window' = "open"
    /\ widgets' = { Widget("project_name_entry", "Entry"),
                    Widget("project_name_title", "Label"),
                    Widget("project_dir_entry", "Entry"),
                    Widget("project_dir_title", "Label") }
    /\ name_text' = ""
    /\ dir_text' = ""
    /\ pc' = "l29"
    /\ UNCHANGED <<project_name, project_dir, h_project_name, h_project_dir,
                   clicks, calls, inflight, outcome>>

\* Lines 29-30: the load-time reads into module-level names.
LoadRead ==
    /\ pc = "l29"
    /\ project_name' = name_text
    /\ project_dir' = dir_text
    /\ pc' = "l33"
    /\ UNCHANGED <<window, widgets, name_text, dir_text, h_project_name,
                   h_project_dir, clicks, calls, inflight, outcome>>


\* Variant: command=create_project() -- the handler body runs while the
\* button is being built instead of being registered.
BuildButtonCalls ==
    /\ pc = "l33"
    /\ widgets' = widgets \cup {Widget("create_project_button", "Button")}
    /\ calls' = Append(calls, <<name_text, dir_text>>)
    /\ pc' = "l37"
    /\ UNCHANGED <<window, name_text, dir_text, project_name, project_dir,
                   h_project_name, h_project_dir, clicks, inflight, outcome>>

\* Lines 33-34: the button, with create_project as its command.
BuildButton ==
    /\ pc = "l33"
    /\ widgets' = widgets \cup {Widget("create_project_button", "Button")}
    /\ pc' = "l37"
    /\ UNCHANGED <<window, name_text, dir_text, project_name, project_dir,
                   h_project_name, h_project_dir, clicks, calls, inflight,
                   outcome>>

\* Line 37: root.mainloop() starts waiting for events.
EnterMainloop ==
    /\ pc = "l37"
    /\ pc' = "mainloop"
    /\ UNCHANGED <<window, widgets, name_text, dir_text, project_name,
                   project_dir, h_project_name, h_project_dir, clicks, calls,
                   inflight, outcome>>

\* The user changes the text of project_name_entry.
EditName(s) ==
    /\ Responsive
    /\ Widget("project_name_entry", "Entry") \in widgets
    /\ s # name_text
    /\ name_text' = s
    /\ UNCHANGED <<pc, window, widgets, dir_text, project_name, project_dir,
                   h_project_name, h_project_dir, clicks, calls, inflight,
                   outcome>>

\* The user changes the text of project_dir_entry.
EditDir(s) ==
    /\ Responsive
    /\ Widget("project_dir_entry", "Entry") \in widgets
    /\ s # dir_text
    /\ dir_text' = s
    /\ UNCHANGED <<pc, window, widgets, name_text, project_name, project_dir,
                   h_project_name, h_project_dir, clicks, calls, inflight,
                   outcome>>

\* The user activates create_project_button: Tk calls create_project.
Press ==
    /\ Responsive
    /\ Widget("create_project_button", "Button") \in widgets
    /\ Len(clicks) < MaxClicks
    /\ clicks' = Append(clicks, [name |-> name_text, dir |-> dir_text])
    /\ pc' = "h7"
    /\ UNCHANGED <<window, widgets, name_text, dir_text, project_name,
                   project_dir, h_project_name, h_project_dir, calls,
                   inflight, outcome>>


\* Variant: line 7 is missing, so line 9 sees the module-level project_name
\* that was read at load time.
ReadNameGlobal ==
    /\ pc = "h7"
    /\ h_project_name' = project_name
    /\ pc' = "h8"
    /\ UNCHANGED <<window, widgets, name_text, dir_text, project_name,
                   project_dir, h_project_dir, clicks, calls, inflight,
                   outcome>>

\* Variant: `if not project_name: return` after line 7.
ReadNameValidated ==
    /\ pc = "h7"
    /\ IF name_text = ""
         THEN /\ pc' = "mainloop"
              /\ h_project_name' = Unbound
         ELSE /\ pc' = "h8"
              /\ h_project_name' = name_text
    /\ UNCHANGED <<window, widgets, name_text, dir_text, project_name,
                   project_dir, h_project_dir, clicks, calls, inflight,
                   outcome>>

\* Line 7: project_name = project_name_entry.get()  (a local: no `global`).
ReadName ==
    /\ pc = "h7"
    /\ h_project_name' = name_text
    /\ pc' = "h8"
    /\ UNCHANGED <<window, widgets, name_text, dir_text, project_name,
                   project_dir, h_project_dir, clicks, calls, inflight,
                   outcome>>


\* Variant: the handler asks again (goes back to line 7) while the
\* directory field is empty.
ReadDirAgain ==
    /\ pc = "h8"
    /\ h_project_dir' = dir_text
    /\ pc' = IF dir_text = "" THEN "h7" ELSE "h9"
    /\ UNCHANGED <<window, widgets, name_text, dir_text, project_name,
                   project_dir, h_project_name, clicks, calls, inflight,
                   outcome>>

\* Line 8: project_dir = project_dir_entry.get()
ReadDir ==
    /\ pc = "h8"
    /\ h_project_dir' = dir_text
    /\ pc' = "h9"
    /\ UNCHANGED <<window, widgets, name_text, dir_text, project_name,
                   project_dir, h_project_name, clicks, calls, inflight,
                   outcome>>


\* Variant: the two arguments of line 9 are passed in the other order.
InvokeSwapped ==
    /\ pc = "h9"
    /\ calls' = Append(calls, <<h_project_dir, h_project_name>>)
    /\ inflight' = inflight + 1
    /\ \E o \in Outcomes : outcome' = o
    /\ pc' = "call"
    /\ UNCHANGED <<window, widgets, name_text, dir_text, project_name,
                   project_dir, h_project_name, h_project_dir, clicks>>

\* Line 9: utils.create_new_project(project_name, project_dir) is entered.
Invoke ==
    /\ pc = "h9"
    /\ calls' = Append(calls, <<h_project_name, h_project_dir>>)
    /\ inflight' = inflight + 1
    /\ \E o \in Outcomes : outcome' = o
    /\ pc' = "call"
    /\ UNCHANGED <<window, widgets, name_text, dir_text, project_name,
                   project_dir, h_project_name, h_project_dir, clicks>>


\* Variant: the handler clears the name entry after a successful call.
CallReturnsClear ==
    /\ pc = "call"
    /\ outcome = "return"
    /\ inflight' = inflight - 1
    /\ h_project_name' = Unbound
    /\ h_project_dir' = Unbound
    /\ name_text' = ""
    /\ pc' = "mainloop"
    /\ UNCHANGED <<window, widgets, dir_text, project_name, project_dir,
                   clicks, calls, outcome>>

\* Variant: a timeout also releases a call that would never return.
CallReturnsTimeout ==
    /\ pc = "call"
    /\ outcome \in {"return", "block"}
    /\ inflight' = inflight - 1
    /\ h_project_name' = Unbound
    /\ h_project_dir' = Unbound
    /\ pc' = "mainloop"
    /\ UNCHANGED <<window, widgets, name_text, dir_text, project_name,
                   project_dir, clicks, calls, outcome>>

\* Line 9 returns normally; create_project returns; its frame is dropped.
CallReturns ==
    /\ pc = "call"
    /\ outcome = "return"
    /\ inflight' = inflight - 1
    /\ h_project_name' = Unbound
    /\ h_project_dir' = Unbound
    /\ pc' = "mainloop"
    /\ UNCHANGED <<window, widgets, name_text, dir_text, project_name,
                   project_dir, clicks, calls, outcome>>


\* Variant: `except Exception: retry` around line 9.
CallRaisesRetry ==
    /\ pc = "call"
    /\ outcome = "raise"
    /\ inflight' = inflight - 1
    /\ pc' = "h9"
    /\ UNCHANGED <<window, widgets, name_text, dir_text, project_name,
                   project_dir, h_project_name, h_project_dir, clicks, calls,
                   outcome>>

\* Variant: the exception is not contained by the callback wrapper and
\* takes the main loop, and with it the window, down.
CallRaisesExit ==
    /\ pc = "call"
    /\ outcome = "raise"
    /\ inflight' = inflight - 1
    /\ h_project_name' = Unbound
    /\ h_project_dir' = Unbound
    /\ window' = "closed"
    /\ widgets' = {}
    /\ pc' = "exited"
    /\ UNCHANGED <<name_text, dir_text, project_name, project_dir, clicks,
                   calls, outcome>>

\* Line 9 raises: nothing in create_project catches it, the frame unwinds
\* and the Tk callback wrapper hands control back to the main loop.
CallRaises ==
    /\ pc = "call"
    /\ outcome = "raise"
    /\ inflight' = inflight - 1
    /\ h_project_name' = Unbound
    /\ h_project_dir' = Unbound
    /\ pc' = "mainloop"
    /\ UNCHANGED <<window, widgets, name_text, dir_text, project_name,
                   project_dir, clicks, calls, outcome>>

\* The user closes the window: mainloop() returns and the script ends.
Close ==
    /\ Responsive
    /\ window = "open"
    /\ window' = "closed"
    /\ widgets' = {}
    /\ pc' = "exited"
    /\ UNCHANGED <<name_text, dir_text, project_name, project_dir,
                   h_project_name, h_project_dir, clicks, calls, inflight,
                   outcome>>

Next ==
    \/ BuildWindow
    \/ LoadRead
    \/ BuildButton
    \/ EnterMainloop
    \/ \E s \in Strings : EditName(s)
    \/ \E s \in Strings : EditDir(s)
    \/ Press
    \/ ReadName
    \/ ReadDir
    \/ Invoke
    \/ CallReturns
    \/ CallRaises
    \/ Close

Spec == Init /\ [][Next]_vars

\* The interpreter keeps executing the script's statements, and a call that
\* returns or raises does so; user events carry no fairness.
Fairness ==
    /\ WF_vars(BuildWindow) /\ WF_vars(LoadRead) /\ WF_vars(BuildButton)
    /\ WF_vars(EnterMainloop)
    /\ WF_vars(ReadName) /\ WF_vars(ReadDir) /\ WF_vars(Invoke)
    /\ WF_vars(CallReturns) /\ WF_vars(CallRaises)

LiveSpec == Init /\ [][Next]_vars /\ Fairness

-----------------------------------------------------------------------------
\* C1: one activation with fields (A, B) makes exactly one call of
\* utils.create_new_project, and its arguments are (A, B): name first,
\* directory second.
C1_OneCallInOrder ==
    /\ pc \in HandlerPcs => Len(calls) + 1 = Len(clicks)
    /\ pc \notin HandlerPcs => Len(calls) = Len(clicks)
    /\ (pc \in {"call", "mainloop", "exited"} /\ calls # <<>>) =>
          calls[Len(calls)] =
              <<clicks[Len(clicks)].name, clicks[Len(clicks)].dir>>

C1_Witness ==
    /\ pc = "mainloop"
    /\ Len(clicks) = 1
    /\ clicks[1] = [name |-> "MyProject", dir |-> "/tmp/projects"]
    /\ calls = << <<"MyProject", "/tmp/projects">> >>

\* C2: no validation short-circuit: whatever the fields hold (also two
\* empty strings, invalid path characters, a name used before), every
\* statement of the handler goes on to the next and line 9 is called with
\* the two field texts unaltered.
C2_NoValidation ==
    [][ /\ pc = "h7" => (pc' = "h8" /\ h_project_name' = name_text)
        /\ pc = "h8" => (pc' = "h9" /\ h_project_dir' = dir_text)
        /\ pc = "h9" => (pc' = "call"
                         /\ calls' = Append(calls, <<name_text, dir_text>>))
      ]_vars

C2_Witness ==
    /\ Len(calls) = 2
    /\ calls[1] = <<"", "">>
    /\ calls[2] = <<"", "a?*">>

C4_NoFailureHandling ==
    /\ [][(pc = "call" /\ pc' # "call") =>
            /\ pc' = "mainloop"
            /\ calls' = calls
            /\ name_text' = name_text
            /\ dir_text' = dir_text
            /\ h_project_name' = Unbound
            /\ h_project_dir' = Unbound]_vars
    /\ []((pc = "mainloop" /\ outcome = "raise") =>
            Len(calls) = Len(clicks))

C4_Witness ==
    /\ pc = "mainloop"
    /\ outcome = "raise"
    /\ Len(calls) = 1
    /\ name_text = "MyProject"
    /\ dir_text = "/tmp/projects"

\* C5, as stated: there is one sequence only -- idle, fields populated,
\* button pressed, call invoked, idle -- so the button is pressed only with
\* populated fields and the idle loop has no exit but an activation.
C5_Original ==
    [][ /\ (pc = "mainloop" /\ pc' = "h7") =>
               (name_text # "" /\ dir_text # "")
        /\ pc = "mainloop" => pc' \in {"mainloop", "h7"}
        /\ pc = "h7" => pc' = "h8"
        /\ pc = "h8" => pc' = "h9"
        /\ pc = "h9" => pc' = "call"
        /\ pc = "call" => pc' = "mainloop" ]_vars

\* C5, amended: within an activation the order is fixed -- pressed, name
\* read, directory read, call invoked, idle -- with no branch and no
\* retry; from idle the script can stay idle (a field edit), start an
\* activation, whatever the fields hold, or end because the window is
\* closed.
C5_Amended ==
    [][ /\ pc = "mainloop" => pc' \in {"mainloop", "h7", "exited"}
        /\ pc = "h7" => pc' = "h8"
        /\ pc = "h8" => pc' = "h9"
        /\ pc = "h9" => pc' = "call"
        /\ pc = "call" => pc' = "mainloop"
        /\ pc = "exited" => pc' = "exited" ]_vars

C5_Witness ==
    /\ pc = "mainloop"
    /\ Len(clicks) = 1
    /\ clicks[1] = [name |-> "", dir |-> ""]
    /\ Len(calls) = 1
    /\ outcome = "return"

\* C6: the handler runs to completion without yielding: from the
\* activation to the end of its call no field edit and no further
\* activation is processed, at most one call is in progress, and the call
\* in progress was given the fields as they still are.
C6_RunToCompletion ==
    /\ [](inflight <= 1)
    /\ [](pc = "call" =>
            /\ inflight = 1
            /\ calls[Len(calls)] = <<name_text, dir_text>>)
    /\ [][(pc \in HandlerPcs \cup {"call"}) =>
            /\ name_text' = name_text
            /\ dir_text' = dir_text
            /\ clicks' = clicks
            /\ window' = window]_vars

C6_Witness ==
    /\ pc = "call"
    /\ inflight = 1
    /\ Len(calls) = 2
    /\ name_text = "MyProject"
    /\ dir_text = "a?*"

\* C7: the k-th call gets the field contents of the k-th activation,
\* whatever earlier calls got; the module-level project_name / project_dir
\* keep their load-time values and reach no call; the handler's locals are
\* gone once it has returned.
C7_FreshAtClick ==
    /\ \A k \in 1..Len(calls) :
          k <= Len(clicks) /\ calls[k] = <<clicks[k].name, clicks[k].dir>>
    /\ pc \notin {"l12", "l29"} => (project_name = "" /\ project_dir = "")
    /\ pc \in {"mainloop", "exited"} =>
          (h_project_name = Unbound /\ h_project_dir = Unbound)

C7_Witness ==
    /\ pc = "mainloop"
    /\ Len(calls) = 2
    /\ calls[1] = <<"MyProject", "/tmp/projects">>
    /\ calls[2] = <<"a?*", "MyProject">>
    /\ project_name = ""

\* C8: an activation only reads the fields: a step that changes the text
\* of either entry is a user edit, taken from the idle main loop and
\* staying there.
C8_OnlyEditsChangeFields ==
    [][(name_text' # name_text \/ dir_text' # dir_text) =>
          (pc = "mainloop" /\ pc' = "mainloop"
           /\ clicks' = clicks /\ calls' = calls)]_vars

C8_Witness ==
    /\ pc = "mainloop"
    /\ outcome = "return"
    /\ Len(calls) = 1
    /\ calls[1] = <<"MyProject", "a?*">>
    /\ name_text = "MyProject"
    /\ dir_text = "a?*"

\* C9: every activation leads back to the idle main loop, where the fields
\* can be edited and (within the bound) the button pressed again, unless
\* its call never returns; a call that never returns keeps the script in
\* the call for good.
C9_BackToIdle ==
    /\ (pc = "h7") ~> (pc = "mainloop" \/ (pc = "call" /\ outcome = "block"))
    /\ [](pc = "mainloop" =>
            /\ ENABLED (\E s \in Strings : EditName(s))
            /\ ENABLED (\E s \in Strings : EditDir(s))
            /\ Len(clicks) < MaxClicks => ENABLED Press)
    /\ [][(pc = "call" /\ outcome = "block") => pc' = "call"]_vars

C9_Witness ==
    /\ pc = "call"
    /\ outcome = "block"
    /\ Len(calls) = 2
    /\ Len(clicks) = 2

\* C10: calls are made only in response to an activation: none while the
\* script loads, none by typing, one per activation whenever the main loop
\* is idle, and a call is only ever added by line 9 of the handler.
C10_CallsOnlyOnActivation ==
    /\ [](pc \in LoadPcs => calls = <<>>)
    /\ [](pc = "mainloop" => Len(calls) = Len(clicks))
    /\ [][(calls' # calls) => (pc = "h9" /\ Len(calls') = Len(calls) + 1)]_vars
    /\ [][(name_text' # name_text \/ dir_text' # dir_text) =>
            calls' = calls]_vars

C10_Witness ==
    /\ pc = "mainloop"
    /\ name_text = "a?*"
    /\ dir_text = "/tmp/projects"
    /\ calls = <<>>
    /\ clicks = <<>>
====
